---- MODULE Spec2Model ----
(***************************************************************************)
(* Model of the database front end: the view controller (HomeComponent,   *)
(* src/unnamed/part_000 lines 399-832) and the API client (DataService,   *)
(* src/unnamed/part_001 lines 1-193).                                      *)
(*                                                                         *)
(* One step of the model is one browser task: a user event, a timer that  *)
(* fires, or an HTTP response, together with every promise callback       *)
(* (microtask) the task runs before the event loop takes the next task.   *)
(* Strings are TLA+ strings; includes, toLowerCase, trim and              *)
(* JSON.stringify are computed character by character.                    *)
(***************************************************************************)
EXTENDS Bags, FiniteSets, Integers, Sequences, TLC

VARIABLES
  view,                  \* lifecycle of the component: constructed, active, destroyed
  activeTab,             \* HomeComponent.activeTab
  connectionStatus,      \* HomeComponent.connectionStatus
  isConnected,           \* HomeComponent.isConnected
  isLoading,             \* HomeComponent.isLoading
  showConnectionModal,   \* HomeComponent.showConnectionModal
  mobileSidebarOpen,     \* HomeComponent.mobileSidebarOpen
  formValid,             \* HomeComponent.databaseForm.valid
  credentials,           \* HomeComponent.databaseForm.value (the database it names)
  connectionTestResult,  \* HomeComponent.connectionTestResult
  connectionTestSuccess, \* HomeComponent.connectionTestSuccess
  selectedFile,          \* HomeComponent.selectedFile (NoFile for null)
  tables,                \* HomeComponent.tables
  selectedTable,         \* HomeComponent.selectedTable
  columns,               \* HomeComponent.columns
  tableData,             \* HomeComponent.tableData
  customQuery,           \* HomeComponent.customQuery
  queryResults,          \* HomeComponent.queryResults
  connectionHealth,      \* DataService.connectionHealthSubject (current value)
  monitoring,            \* DataService.healthCheckInterval is still subscribed
  healthPending,         \* the health request of the last timer tick is in flight
  initCheckPending,      \* the request of HomeComponent.checkConnectionHealth is in flight
  tasks,                 \* bag of the executeWithRetry calls in progress
  ev,                    \* the event handled by the last step (history variable)
  message,               \* input of the function applied by the last function step
  verdict                \* its result: <<>> before the step, <<result>> after

ctlVars == <<view, activeTab, connectionStatus, isConnected, isLoading,
             showConnectionModal, mobileSidebarOpen, formValid, credentials,
             connectionTestResult, connectionTestSuccess, selectedFile,
             tables, selectedTable, columns, tableData, customQuery,
             queryResults>>
svcVars == <<connectionHealth, monitoring, healthPending, initCheckPending>>
fnVars == <<message, verdict>>
vars == <<ctlVars, svcVars, tasks, ev, fnVars>>

---------------------------------------------------------------------------
(* Bounds of the model *)

\* executeWithRetry calls in progress at the same time, in SpecConnect
MaxCalls == 1
\* table selections whose fetches are in progress at the same time, in SpecTables
MaxSelects == 1
\* queries in progress at the same time, in SpecQuery
MaxQueries == 2
\* fragments concatenated into a response text of the classification check
MaxParts == 2
\* table-list loads in progress at a time in SpecFetch
MaxLoads == 1
\* selections of a table whose fetches are in progress at the same time, in
\* SpecReselect
MaxOverlap == 2

---------------------------------------------------------------------------
(* Strings *)

\* String.prototype.includes
Includes(s, k) ==
  \E i \in 1..(Len(s) - Len(k) + 1) : SubSeq(s, i, i + Len(k) - 1) = k

LowerChar(c) ==
  CASE c = "A" -> "a" [] c = "B" -> "b" [] c = "C" -> "c" [] c = "D" -> "d"
    [] c = "E" -> "e" [] c = "F" -> "f" [] c = "G" -> "g" [] c = "H" -> "h"
    [] c = "I" -> "i" [] c = "J" -> "j" [] c = "K" -> "k" [] c = "L" -> "l"
    [] c = "M" -> "m" [] c = "N" -> "n" [] c = "O" -> "o" [] c = "P" -> "p"
    [] c = "Q" -> "q" [] c = "R" -> "r" [] c = "S" -> "s" [] c = "T" -> "t"
    [] c = "U" -> "u" [] c = "V" -> "v" [] c = "W" -> "w" [] c = "X" -> "x"
    [] c = "Y" -> "y" [] c = "Z" -> "z" [] OTHER -> c

\* String.prototype.toLowerCase
RECURSIVE ToLowerCase(_)
ToLowerCase(s) ==
  IF Len(s) = 0 THEN ""
  ELSE LowerChar(SubSeq(s, 1, 1)) \o ToLowerCase(SubSeq(s, 2, Len(s)))

IsSpace(c) == c \in {" ", "\t", "\n"}

\* String.prototype.trim
RECURSIVE Trim(_)
Trim(s) ==
  IF Len(s) = 0 THEN ""
  ELSE IF IsSpace(SubSeq(s, 1, 1)) THEN Trim(SubSeq(s, 2, Len(s)))
  ELSE IF IsSpace(SubSeq(s, Len(s), Len(s))) THEN Trim(SubSeq(s, 1, Len(s) - 1))
  ELSE s

\* truthiness of a string: the empty string is falsy
Truthy(s) == s # ""

\* s || d
OrDefault(s, d) == IF Truthy(s) THEN s ELSE d

---------------------------------------------------------------------------
(* HomeComponent.isSuccessResponse *)

successKeywords == {"success", "connected", "created", "uploaded"}
errorKeywords == {"error", "failed", "invalid", "not found"}

\* faulty variant of FallbackVerdict: the negation is missing
FallbackVerdictUnnegated(lowerMessage) == Includes(lowerMessage, "error")

\* the last line of isSuccessResponse
FallbackVerdict(lowerMessage) == ~Includes(lowerMessage, "error")

\* faulty variant of isSuccessResponse: the success keywords are tested first
isSuccessResponseSuccessFirst(m) ==
  LET lowerMessage == ToLowerCase(m) IN
  IF \E keyword \in successKeywords : Includes(lowerMessage, keyword) THEN TRUE
  ELSE IF \E keyword \in errorKeywords : Includes(lowerMessage, keyword) THEN FALSE
  ELSE FallbackVerdict(lowerMessage)

isSuccessResponse(m) ==
  LET lowerMessage == ToLowerCase(m) IN
  IF \E keyword \in errorKeywords : Includes(lowerMessage, keyword) THEN FALSE
  ELSE IF \E keyword \in successKeywords : Includes(lowerMessage, keyword) THEN TRUE
  ELSE FallbackVerdict(lowerMessage)


---------------------------------------------------------------------------
(* JSON.stringify of a string *)

EscapeChar(c) ==
  CASE c = "\"" -> "\\\""
    [] c = "\\" -> "\\\\"
    [] c = "\n" -> "\\n"
    [] c = "\t" -> "\\t"
    [] OTHER -> c

RECURSIVE Escape(_)
Escape(s) ==
  IF Len(s) = 0 THEN ""
  ELSE EscapeChar(SubSeq(s, 1, 1)) \o Escape(SubSeq(s, 2, Len(s)))

JsonStringify(s) == "\"" \o Escape(s) \o "\""

---------------------------------------------------------------------------
(* Values the environment supplies *)

NoFile == "null"
Files == {"data.xlsx"}
Tabs == {"dashboard", "metadata", "tables", "query"}
TableNames == {"", "A", "B"}
QueryTexts == {"", " \n", "Select \"a\""}
\* the database field of the credential form: empty at first, and required
NoDatabase == ""
Databases == {"db1", "db2"}
Kinds == {"connect", "test", "upload", "tables", "columns", "data", "query"}

\* status texts the connect endpoints answer with (plain text)
ConnectResponses == {"", "Error: invalid password", "Connection Ready"}
\* status texts the upload endpoint answers with
UploadResponses == {"", "uploaded but error parsing row 4"}
TablesResponses == {<<>>, <<"A", "B">>}
ColumnsOf(name) == <<name \o ".id">>
RowsOf(name) == <<name \o "#1">>
QueryRows == <<"row">>

\* HttpErrorResponse values: status, error (the body) and message
HttpErrors ==
  { [status |-> 0, error |-> [type |-> "null"], message |-> "Http failure: 0 Unknown Error"],
    [status |-> 400, error |-> [type |-> "string", text |-> "Login failed for user"],
     message |-> "Http failure: 400 Bad Request"] }

---------------------------------------------------------------------------
(* DataService.handleError: the message of the Error it throws *)

\* faulty variant of handleError: a body is looked at before the status
handleErrorBodyFirst(error) ==
  IF error.error.type = "ErrorEvent" THEN "Client Error: " \o error.error.message
  ELSE IF error.error.type = "string" /\ Truthy(error.error.text) THEN error.error.text
  ELSE IF error.error.type = "object"
    THEN OrDefault(error.error.message, error.message)
  ELSE IF error.status = 0
    THEN "Unable to connect to server. Please check your connection."
  ELSE IF error.status >= 500 THEN "Server error. Please try again later."
  ELSE IF error.status = 404 THEN "Service not found. Please check the API endpoint."
  ELSE "Server Error (" \o ToString(error.status) \o "): " \o error.message

handleError(error) ==
  IF error.error.type = "ErrorEvent" THEN "Client Error: " \o error.error.message
  ELSE IF error.status = 0
    THEN "Unable to connect to server. Please check your connection."
  ELSE IF error.status >= 500 THEN "Server error. Please try again later."
  ELSE IF error.status = 404 THEN "Service not found. Please check the API endpoint."
  ELSE IF error.error.type = "string" /\ Truthy(error.error.text) THEN error.error.text
  ELSE IF error.error.type = "object"
    THEN OrDefault(error.error.message, error.message)
  ELSE "Server Error (" \o ToString(error.status) \o "): " \o error.message

---------------------------------------------------------------------------
(* The state the handlers read and write, as one record, so that the      *)
(* statements of a handler compose in program order                       *)

Cur ==
  [view |-> view, activeTab |-> activeTab, connectionStatus |-> connectionStatus,
   isConnected |-> isConnected, isLoading |-> isLoading,
   showConnectionModal |-> showConnectionModal,
   mobileSidebarOpen |-> mobileSidebarOpen, formValid |-> formValid,
   credentials |-> credentials,
   connectionTestResult |-> connectionTestResult,
   connectionTestSuccess |-> connectionTestSuccess, selectedFile |-> selectedFile,
   tables |-> tables, selectedTable |-> selectedTable, columns |-> columns,
   tableData |-> tableData, customQuery |-> customQuery,
   queryResults |-> queryResults, connectionHealth |-> connectionHealth,
   tasks |-> tasks]

Becomes(s) ==
  /\ view' = s.view
  /\ activeTab' = s.activeTab
  /\ connectionStatus' = s.connectionStatus
  /\ isConnected' = s.isConnected
  /\ isLoading' = s.isLoading
  /\ showConnectionModal' = s.showConnectionModal
  /\ mobileSidebarOpen' = s.mobileSidebarOpen
  /\ formValid' = s.formValid
  /\ credentials' = s.credentials
  /\ connectionTestResult' = s.connectionTestResult
  /\ connectionTestSuccess' = s.connectionTestSuccess
  /\ selectedFile' = s.selectedFile
  /\ tables' = s.tables
  /\ selectedTable' = s.selectedTable
  /\ columns' = s.columns
  /\ tableData' = s.tableData
  /\ customQuery' = s.customQuery
  /\ queryResults' = s.queryResults
  /\ connectionHealth' = s.connectionHealth
  /\ tasks' = s.tasks

---------------------------------------------------------------------------
(* HomeComponent.executeWithRetry *)

maxRetries == 3

\* faulty variant of RetryDelay: the exponent counts the attempts from 0
RetryDelayFromZero(attempt) == (2 ^ (attempt - 1)) * 1000

\* the delay, in milliseconds, of the setTimeout after a failed attempt
RetryDelay(attempt) == (2 ^ attempt) * 1000

\* faulty variant of IsLastAttempt: gives up one attempt early
IsLastAttemptEarly(attempt) == attempt = maxRetries - 1

\* if (attempt === this.maxRetries) throw error
IsLastAttempt(attempt) == attempt = maxRetries

\* the error executeWithRetry rethrows: the one its catch block just caught.
\* An Error is a fresh object for every failed request: its message, and the
\* attempt whose request produced it
RethrownError(t) == t.caught

NoError == [message |-> "", attempt |-> 0]

\* the value the caller had at the call (what the claims call the call's argument)
Argument(s, kind) ==
  CASE kind = "query" -> s.customQuery
    [] kind \in {"columns", "data"} -> s.selectedTable
    [] kind = "upload" -> s.selectedFile
    [] kind \in {"connect", "test"} -> s.credentials
    [] OTHER -> ""

\* what the HTTP request of an attempt carries: the operation closure is run
\* again by every attempt and reads the component's fields at that moment;
\* the connect observable is built once, before executeWithRetry
Request(s, kind) ==
  CASE kind = "query" -> JsonStringify(s.customQuery)
    [] kind \in {"columns", "data"} -> s.selectedTable
    [] kind = "upload" -> s.selectedFile
    [] kind \in {"connect", "test"} -> s.credentials
    [] OTHER -> ""

\* what the request of a later attempt carries: connectionMethod was built from
\* the form's value before executeWithRetry and is subscribed again as it is;
\* the other closures call the service again with the fields of that moment
Reissued(s, t) ==
  IF t.kind \in {"connect", "test"} THEN t.req ELSE Request(s, t.kind)

\* the first pass of the loop: operation() is called at once and sends a request
NewTask(s, kind) ==
  [kind |-> kind, attempt |-> 1, phase |-> "inflight",
   called |-> Argument(s, kind), req |-> Request(s, kind),
   caught |-> NoError, waits |-> <<>>]

StartTask(s, kind) ==
  [s EXCEPT !.tasks = @ (+) SetToBag({NewTask(s, kind)})]

Replace(b, t, u) == (b (-) SetToBag({t})) (+) SetToBag({u})
Remove(b, t) == b (-) SetToBag({t})

\* the executeWithRetry calls of one kind that are in progress
NumTasks(b, kind) ==
  BagCardinality([t \in {u \in BagToSet(b) : u.kind = kind} |-> b[t]])

---------------------------------------------------------------------------
(* Handlers of HomeComponent, as functions from state to state *)

ConnectionLost == "Connection lost - attempting to reconnect..."

\* faulty variant of HealthCallback: only a healthy report is taken over
HealthCallbackOnlyHealthy(s, isHealthy) ==
  IF isHealthy /\ s.isConnected # isHealthy
  THEN [s EXCEPT !.isConnected = isHealthy]
  ELSE s

\* faulty variant of HealthCallback: the status is replaced when
\* isSuccessResponse classifies it as a success
HealthCallbackClassified(s, isHealthy) ==
  IF s.isConnected # isHealthy
  THEN [s EXCEPT !.isConnected = isHealthy,
                 !.connectionStatus =
                    IF ~isHealthy /\ isSuccessResponse(@) THEN ConnectionLost ELSE @]
  ELSE s

\* faulty variant of HealthCallback: a healthy report writes a status text
HealthCallbackAnnounces(s, isHealthy) ==
  IF s.isConnected # isHealthy
  THEN [s EXCEPT !.isConnected = isHealthy,
                 !.connectionStatus =
                    IF isHealthy THEN "Connected successfully"
                    ELSE IF Includes(@, "success") THEN ConnectionLost ELSE @]
  ELSE s

\* the callback ngOnInit subscribes to connectionHealth$
HealthCallback(s, isHealthy) ==
  IF s.isConnected # isHealthy
  THEN [s EXCEPT !.isConnected = isHealthy,
                 !.connectionStatus =
                    IF ~isHealthy /\ Includes(@, "success") THEN ConnectionLost ELSE @]
  ELSE s

\* faulty variant of SubjectNext: the subscription outlives the view
SubjectNextStillSubscribed(s, v) ==
  HealthCallback([s EXCEPT !.connectionHealth = v], v)

\* connectionHealthSubject.next(v): the subscribers run synchronously
SubjectNext(s, v) ==
  LET s1 == [s EXCEPT !.connectionHealth = v] IN
  IF s.view = "active" THEN HealthCallback(s1, v) ELSE s1

closeConnectionModal(s) ==
  [s EXCEPT !.showConnectionModal = FALSE, !.connectionTestResult = ""]

closeMobileSidebar(s) == [s EXCEPT !.mobileSidebarOpen = FALSE]

loadTables(s) == StartTask([s EXCEPT !.isLoading = TRUE], "tables")

loadTableColumns(s) == StartTask(s, "columns")

loadTableData(s) == StartTask(s, "data")

\* faulty variant of onTableSelected: the row data is not fetched
onTableSelectedColumnsOnly(s) ==
  IF Truthy(s.selectedTable) THEN loadTableColumns(s) ELSE s

onTableSelected(s) ==
  IF Truthy(s.selectedTable) THEN loadTableData(loadTableColumns(s)) ELSE s

selectTable(s, tableName) == onTableSelected([s EXCEPT !.selectedTable = tableName])

\* faulty variant of setActiveTab: every tab opens without a connection
setActiveTabUnguarded(s, tab) ==
  LET s1 == closeMobileSidebar([s EXCEPT !.activeTab = tab]) IN
  IF tab \in {"metadata", "tables"} /\ s1.isConnected /\ Len(s1.tables) = 0
  THEN loadTables(s1) ELSE s1

\* faulty variant of setActiveTab: the list is loaded again when it is there
setActiveTabAlwaysLoads(s, tab) ==
  IF tab # "dashboard" /\ ~s.isConnected THEN s
  ELSE LET s1 == closeMobileSidebar([s EXCEPT !.activeTab = tab]) IN
       IF tab \in {"metadata", "tables"} /\ s1.isConnected
       THEN loadTables(s1) ELSE s1

setActiveTab(s, tab) ==
  IF tab # "dashboard" /\ ~s.isConnected THEN s
  ELSE LET s1 == closeMobileSidebar([s EXCEPT !.activeTab = tab]) IN
       IF tab \in {"metadata", "tables"} /\ s1.isConnected /\ Len(s1.tables) = 0
       THEN loadTables(s1) ELSE s1

\* faulty variant of ConnectedThen: a response counts as connected unclassified
ConnectedThenUnclassified(s, status) ==
  closeConnectionModal(loadTables(
    [s EXCEPT !.connectionStatus = status, !.isConnected = TRUE,
              !.isLoading = FALSE]))

\* faulty variant of ConnectedThen: the load is skipped when tables is populated
ConnectedThenSkipLoaded(s, status) ==
  LET s1 == [s EXCEPT !.connectionStatus = status,
                      !.isConnected = isSuccessResponse(status),
                      !.isLoading = FALSE] IN
  IF s1.isConnected
  THEN closeConnectionModal(IF Len(s1.tables) = 0 THEN loadTables(s1) ELSE s1)
  ELSE s1

\* faulty variant of ConnectedThen: an unhealthy report that came earlier
\* keeps the completion from connecting
ConnectedThenUnlessUnhealthy(s, status) ==
  LET s1 == [s EXCEPT !.connectionStatus = status,
                      !.isConnected = isSuccessResponse(status) /\ s.connectionHealth,
                      !.isLoading = FALSE] IN
  IF s1.isConnected THEN closeConnectionModal(loadTables(s1)) ELSE s1

\* the .then callback of connectToDatabase and of uploadExcel
ConnectedThen(s, status) ==
  LET s1 == [s EXCEPT !.connectionStatus = status,
                      !.isConnected = isSuccessResponse(status),
                      !.isLoading = FALSE] IN
  IF s1.isConnected THEN closeConnectionModal(loadTables(s1)) ELSE s1

\* faulty variant of ThenHandler: the answer about a table that is no longer
\* the selected one is dropped
ThenHandlerDropsStale(s, kind, response) ==
  CASE kind = "connect" -> ConnectedThen(s, OrDefault(response, "Connected successfully"))
    [] kind = "upload" ->
         ConnectedThen([s EXCEPT !.selectedFile = NoFile],
                       OrDefault(response, "Excel uploaded successfully"))
    [] kind = "test" ->
         LET r == OrDefault(response, "Connection test successful") IN
         [s EXCEPT !.connectionTestResult = r,
                   !.connectionTestSuccess = isSuccessResponse(r),
                   !.isLoading = FALSE]
    [] kind = "tables" -> [s EXCEPT !.tables = response, !.isLoading = FALSE]
    [] kind = "columns" ->
         IF response = ColumnsOf(s.selectedTable)
         THEN [s EXCEPT !.columns = response] ELSE s
    [] kind = "data" ->
         IF response = RowsOf(s.selectedTable)
         THEN [s EXCEPT !.tableData = response] ELSE s
    [] kind = "query" -> [s EXCEPT !.queryResults = response, !.isLoading = FALSE]

\* faulty variant of ThenHandler: a test that succeeds marks the view connected
ThenHandlerTestConnects(s, kind, response) ==
  CASE kind = "connect" -> ConnectedThen(s, OrDefault(response, "Connected successfully"))
    [] kind = "upload" ->
         ConnectedThen([s EXCEPT !.selectedFile = NoFile],
                       OrDefault(response, "Excel uploaded successfully"))
    [] kind = "test" ->
         LET r == OrDefault(response, "Connection test successful") IN
         [s EXCEPT !.connectionTestResult = r,
                   !.connectionTestSuccess = isSuccessResponse(r),
                   !.isConnected = isSuccessResponse(r),
                   !.isLoading = FALSE]
    [] kind = "tables" -> [s EXCEPT !.tables = response, !.isLoading = FALSE]
    [] kind = "columns" -> [s EXCEPT !.columns = response]
    [] kind = "data" -> [s EXCEPT !.tableData = response]
    [] kind = "query" -> [s EXCEPT !.queryResults = response, !.isLoading = FALSE]

\* the .then callbacks, by the operation that was retried
ThenHandler(s, kind, response) ==
  CASE kind = "connect" -> ConnectedThen(s, OrDefault(response, "Connected successfully"))
    [] kind = "upload" ->
         ConnectedThen([s EXCEPT !.selectedFile = NoFile],
                       OrDefault(response, "Excel uploaded successfully"))
    [] kind = "test" ->
         LET r == OrDefault(response, "Connection test successful") IN
         [s EXCEPT !.connectionTestResult = r,
                   !.connectionTestSuccess = isSuccessResponse(r),
                   !.isLoading = FALSE]
    [] kind = "tables" -> [s EXCEPT !.tables = response, !.isLoading = FALSE]
    [] kind = "columns" -> [s EXCEPT !.columns = response]
    [] kind = "data" -> [s EXCEPT !.tableData = response]
    [] kind = "query" -> [s EXCEPT !.queryResults = response, !.isLoading = FALSE]

\* faulty variant of CatchHandler: a failed columns fetch clears the rows too
CatchHandlerClearsRows(s, kind, errorMessage) ==
  CASE kind \in {"connect", "upload"} ->
         [s EXCEPT !.connectionStatus = "Error: " \o errorMessage,
                   !.isConnected = FALSE, !.isLoading = FALSE]
    [] kind = "test" ->
         [s EXCEPT !.connectionTestResult = "Test failed: " \o errorMessage,
                   !.connectionTestSuccess = FALSE, !.isLoading = FALSE]
    [] kind = "tables" ->
         LET s1 == [s EXCEPT !.tables = <<>>, !.isLoading = FALSE] IN
         IF Len(s1.tables) = 0 /\ s1.isConnected
         THEN [s1 EXCEPT !.connectionStatus =
                           "Connected but cannot load tables: " \o errorMessage]
         ELSE s1
    [] kind = "columns" -> [s EXCEPT !.columns = <<>>, !.tableData = <<>>]
    [] kind = "data" -> [s EXCEPT !.tableData = <<>>]
    [] kind = "query" -> [s EXCEPT !.queryResults = <<>>, !.isLoading = FALSE]

\* faulty variant of CatchHandler: a failed query leaves isLoading set
CatchHandlerKeepsLoading(s, kind, errorMessage) ==
  CASE kind \in {"connect", "upload"} ->
         [s EXCEPT !.connectionStatus = "Error: " \o errorMessage,
                   !.isConnected = FALSE, !.isLoading = FALSE]
    [] kind = "test" ->
         [s EXCEPT !.connectionTestResult = "Test failed: " \o errorMessage,
                   !.connectionTestSuccess = FALSE, !.isLoading = FALSE]
    [] kind = "tables" ->
         LET s1 == [s EXCEPT !.tables = <<>>, !.isLoading = FALSE] IN
         IF Len(s1.tables) = 0 /\ s1.isConnected
         THEN [s1 EXCEPT !.connectionStatus =
                           "Connected but cannot load tables: " \o errorMessage]
         ELSE s1
    [] kind = "columns" -> [s EXCEPT !.columns = <<>>]
    [] kind = "data" -> [s EXCEPT !.tableData = <<>>]
    [] kind = "query" -> [s EXCEPT !.queryResults = <<>>]

\* faulty variant of CatchHandler: a failed table-list load is reported in
\* connectionStatus whether connected or not
CatchHandlerAlwaysReports(s, kind, errorMessage) ==
  CASE kind \in {"connect", "upload"} ->
         [s EXCEPT !.connectionStatus = "Error: " \o errorMessage,
                   !.isConnected = FALSE, !.isLoading = FALSE]
    [] kind = "test" ->
         [s EXCEPT !.connectionTestResult = "Test failed: " \o errorMessage,
                   !.connectionTestSuccess = FALSE, !.isLoading = FALSE]
    [] kind = "tables" ->
         LET s1 == [s EXCEPT !.tables = <<>>, !.isLoading = FALSE] IN
         IF Len(s1.tables) = 0
         THEN [s1 EXCEPT !.connectionStatus =
                           "Connected but cannot load tables: " \o errorMessage]
         ELSE s1
    [] kind = "columns" -> [s EXCEPT !.columns = <<>>]
    [] kind = "data" -> [s EXCEPT !.tableData = <<>>]
    [] kind = "query" -> [s EXCEPT !.queryResults = <<>>, !.isLoading = FALSE]

\* the .catch callbacks, by the operation that was retried
CatchHandler(s, kind, errorMessage) ==
  CASE kind \in {"connect", "upload"} ->
         [s EXCEPT !.connectionStatus = "Error: " \o errorMessage,
                   !.isConnected = FALSE, !.isLoading = FALSE]
    [] kind = "test" ->
         [s EXCEPT !.connectionTestResult = "Test failed: " \o errorMessage,
                   !.connectionTestSuccess = FALSE, !.isLoading = FALSE]
    [] kind = "tables" ->
         LET s1 == [s EXCEPT !.tables = <<>>, !.isLoading = FALSE] IN
         IF Len(s1.tables) = 0 /\ s1.isConnected
         THEN [s1 EXCEPT !.connectionStatus =
                           "Connected but cannot load tables: " \o errorMessage]
         ELSE s1
    [] kind = "columns" -> [s EXCEPT !.columns = <<>>]
    [] kind = "data" -> [s EXCEPT !.tableData = <<>>]
    [] kind = "query" -> [s EXCEPT !.queryResults = <<>>, !.isLoading = FALSE]

\* what the server can answer to the request of a task
Responses(t) ==
  CASE t.kind \in {"connect", "test"} -> ConnectResponses
    [] t.kind = "upload" -> UploadResponses
    [] t.kind = "tables" -> TablesResponses
    [] t.kind = "columns" -> {ColumnsOf(t.req)}
    [] t.kind = "data" -> {RowsOf(t.req)}
    [] t.kind = "query" -> {QueryRows}

---------------------------------------------------------------------------
(* Initial state: the service and the component have been constructed *)

InitProgram ==
  /\ view = "constructed"
  /\ activeTab = "dashboard"
  /\ connectionStatus = ""
  /\ isConnected = FALSE
  /\ isLoading = FALSE
  /\ showConnectionModal = FALSE
  /\ mobileSidebarOpen = FALSE
  /\ formValid = FALSE
  /\ credentials = NoDatabase
  /\ connectionTestResult = ""
  /\ connectionTestSuccess = FALSE
  /\ selectedFile = NoFile
  /\ tables = <<>>
  /\ selectedTable = ""
  /\ columns = <<>>
  /\ tableData = <<>>
  /\ customQuery = ""
  /\ queryResults = <<>>
  /\ connectionHealth = FALSE
  /\ monitoring = TRUE
  /\ healthPending = FALSE
  /\ initCheckPending = FALSE
  /\ tasks = EmptyBag
  /\ ev = [op |-> "constructed"]

Init ==
  /\ InitProgram
  /\ message = ""
  /\ verdict = <<>>

\* no promise callback is waiting to run: the event loop can take a new task
Quiet == \A t \in BagToSet(tasks) : t.phase # "thrown"

\* a user event can be handled
Interactive == view = "active" /\ Quiet

---------------------------------------------------------------------------
(* Lifecycle *)

NgOnInit ==
  /\ view = "constructed"
  /\ Becomes(HealthCallback([Cur EXCEPT !.view = "active",
                                        !.connectionTestResult = "",
                                        !.connectionTestSuccess = FALSE],
                            connectionHealth))
  /\ initCheckPending' = TRUE
  /\ ev' = [op |-> "ngOnInit"]
  /\ UNCHANGED <<monitoring, healthPending, fnVars>>

NgOnDestroy ==
  /\ Interactive
  /\ Becomes([Cur EXCEPT !.view = "destroyed"])
  /\ monitoring' = FALSE
  /\ healthPending' = FALSE
  /\ ev' = [op |-> "ngOnDestroy"]
  /\ UNCHANGED <<initCheckPending, fnVars>>

---------------------------------------------------------------------------
(* DataService.startHealthMonitoring and HomeComponent.checkConnectionHealth *)

\* the timer fires: switchMap drops the previous request and sends a new one
HealthTick ==
  /\ view # "constructed" /\ Quiet
  /\ monitoring
  /\ healthPending' = TRUE
  /\ ev' = [op |-> "healthTick"]
  /\ UNCHANGED <<ctlVars, connectionHealth, monitoring, initCheckPending, tasks, fnVars>>

HealthResponse(isHealthy) ==
  /\ Quiet
  /\ healthPending
  /\ Becomes(SubjectNext(Cur, isHealthy))
  /\ healthPending' = FALSE
  /\ ev' = [op |-> "healthResponse", emitted |-> isHealthy, wasConnected |-> isConnected]
  /\ UNCHANGED <<monitoring, initCheckPending, fnVars>>

\* catchError replaces the timer stream by of({isHealthy: false}), which completes
HealthFailure ==
  /\ Quiet
  /\ healthPending
  /\ Becomes(SubjectNext(Cur, FALSE))
  /\ healthPending' = FALSE
  /\ monitoring' = FALSE
  /\ ev' = [op |-> "healthFailure", emitted |-> FALSE, wasConnected |-> isConnected]
  /\ UNCHANGED <<initCheckPending, fnVars>>

InitCheckResponse(isHealthy) ==
  /\ Quiet
  /\ initCheckPending
  /\ Becomes([Cur EXCEPT !.isConnected = isHealthy,
                         !.connectionStatus =
                            IF ~isHealthy /\ ~Truthy(@) THEN "Not connected" ELSE @])
  /\ initCheckPending' = FALSE
  /\ ev' = [op |-> "initCheckResponse"]
  /\ UNCHANGED <<monitoring, healthPending, fnVars>>

\* faulty variant of InitCheckFailure: a failed check counts as healthy
InitCheckFailureAssumesHealthy ==
  /\ Quiet
  /\ initCheckPending
  /\ Becomes([Cur EXCEPT !.isConnected = TRUE])
  /\ initCheckPending' = FALSE
  /\ ev' = [op |-> "initCheckFailure"]
  /\ UNCHANGED <<monitoring, healthPending, fnVars>>

InitCheckFailure ==
  /\ Quiet
  /\ initCheckPending
  /\ Becomes([Cur EXCEPT !.isConnected = FALSE,
                         !.connectionStatus =
                            IF ~Truthy(@) THEN "Not connected" ELSE @])
  /\ initCheckPending' = FALSE
  /\ ev' = [op |-> "initCheckFailure"]
  /\ UNCHANGED <<monitoring, healthPending, fnVars>>

---------------------------------------------------------------------------
(* User events *)

\* a handler of the component runs on a user event
UserEvent(s, e) ==
  /\ Interactive
  /\ Becomes(s)
  /\ ev' = e
  /\ UNCHANGED <<monitoring, healthPending, initCheckPending, fnVars>>

SetActiveTab(tab) == UserEvent(setActiveTab(Cur, tab), [op |-> "setActiveTab", tab |-> tab])

OpenConnectionModal ==
  UserEvent([Cur EXCEPT !.showConnectionModal = TRUE, !.connectionTestResult = ""],
            [op |-> "openConnectionModal"])

CloseConnectionModal == UserEvent(closeConnectionModal(Cur), [op |-> "closeConnectionModal"])

ToggleMobileSidebar ==
  UserEvent([Cur EXCEPT !.mobileSidebarOpen = ~@], [op |-> "toggleMobileSidebar"])

\* the user edits the credential form and its validity changes: the required
\* fields are all filled in, or the database field is emptied
EditForm ==
  UserEvent([Cur EXCEPT !.formValid = ~@,
                        !.credentials = IF formValid THEN NoDatabase ELSE "db1"],
            [op |-> "editForm"])

\* the user names another database in the valid form
EditDatabase(d) ==
  /\ formValid /\ d # credentials
  /\ UserEvent([Cur EXCEPT !.credentials = d], [op |-> "editDatabase"])

OnFileSelected(f) == UserEvent([Cur EXCEPT !.selectedFile = f], [op |-> "onFileSelected"])

\* the user edits the query text (two-way binding of customQuery)
EditQuery(q) ==
  /\ q # customQuery
  /\ UserEvent([Cur EXCEPT !.customQuery = q], [op |-> "editQuery"])

ClearQuery ==
  UserEvent([Cur EXCEPT !.customQuery = "", !.queryResults = <<>>], [op |-> "clearQuery"])

SelectTable(tableName) ==
  UserEvent(selectTable(Cur, tableName), [op |-> "selectTable", name |-> tableName])

\* faulty variant of ConnectToDatabase: a connect in progress is abandoned
ConnectToDatabaseCancelling ==
  UserEvent(IF formValid
            THEN StartTask([Cur EXCEPT !.isLoading = TRUE,
                                       !.tasks = [t \in {u \in BagToSet(@) : u.kind # "connect"}
                                                    |-> @[t]]],
                           "connect")
            ELSE Cur,
            [op |-> "connectToDatabase"])

ConnectToDatabase ==
  UserEvent(IF formValid THEN StartTask([Cur EXCEPT !.isLoading = TRUE], "connect")
            ELSE Cur,
            [op |-> "connectToDatabase"])

\* faulty variant of TestConnection: the old result is cleared before the
\* validity of the form is looked at
TestConnectionClearsFirst ==
  UserEvent(IF formValid
            THEN StartTask([Cur EXCEPT !.isLoading = TRUE, !.connectionTestResult = ""],
                           "test")
            ELSE [Cur EXCEPT !.connectionTestResult = ""],
            [op |-> "testConnection"])

TestConnection ==
  UserEvent(IF formValid
            THEN StartTask([Cur EXCEPT !.isLoading = TRUE, !.connectionTestResult = ""],
                           "test")
            ELSE Cur,
            [op |-> "testConnection"])

UploadExcel ==
  UserEvent(IF selectedFile # NoFile
            THEN StartTask([Cur EXCEPT !.isLoading = TRUE], "upload") ELSE Cur,
            [op |-> "uploadExcel"])

\* faulty variant of RunCustomQuery: isLoading is not set
RunCustomQueryUnmarked ==
  UserEvent(IF Truthy(Trim(customQuery)) THEN StartTask(Cur, "query") ELSE Cur,
            [op |-> "runCustomQuery"])

RunCustomQuery ==
  UserEvent(IF Truthy(Trim(customQuery))
            THEN StartTask([Cur EXCEPT !.isLoading = TRUE], "query") ELSE Cur,
            [op |-> "runCustomQuery"])

---------------------------------------------------------------------------
(* The executeWithRetry calls in progress *)

\* faulty variant of HttpSuccess: the loop of executeWithRetry goes on after a
\* success and runs the operation again
HttpSuccessKeepsRetrying(t, response) ==
  /\ Quiet
  /\ t.phase = "inflight"
  /\ Becomes(ThenHandler(
       [Cur EXCEPT !.tasks = IF t.attempt < maxRetries
                             THEN Replace(@, t, [t EXCEPT !.attempt = @ + 1])
                             ELSE Remove(@, t)],
       t.kind, response))
  /\ ev' = [op |-> "resolved", task |-> t, response |-> response,
            wasConnected |-> isConnected]
  /\ UNCHANGED <<monitoring, healthPending, initCheckPending, fnVars>>

\* the request of the attempt in flight is answered with a success
HttpSuccess(t, response) ==
  /\ Quiet
  /\ t.phase = "inflight"
  /\ Becomes(ThenHandler([Cur EXCEPT !.tasks = Remove(@, t)], t.kind, response))
  /\ ev' = [op |-> "resolved", task |-> t, response |-> response,
            wasConnected |-> isConnected]
  /\ UNCHANGED <<monitoring, healthPending, initCheckPending, fnVars>>

\* faulty variant of HttpFailure: the service sends the failed request again
\* by itself and the caller is not told
HttpFailureResends(t, error) ==
  /\ Quiet
  /\ t.phase = "inflight"
  /\ Becomes(SubjectNext(Cur, FALSE))
  /\ ev' = [op |-> "httpFailure", task |-> t, emitted |-> FALSE,
            wasConnected |-> isConnected]
  /\ UNCHANGED <<monitoring, healthPending, initCheckPending, fnVars>>

\* faulty variant of HttpFailure: handleError throws without publishing
HttpFailureSilent(t, error) ==
  /\ Quiet
  /\ t.phase = "inflight"
  /\ Becomes([Cur EXCEPT !.tasks = Replace(@, t,
          [t EXCEPT !.phase = "thrown",
                    !.caught = [message |-> handleError(error),
                                attempt |-> t.attempt]])])
  /\ ev' = [op |-> "httpFailure", task |-> t, emitted |-> FALSE,
            wasConnected |-> isConnected]
  /\ UNCHANGED <<monitoring, healthPending, initCheckPending, fnVars>>

\* the request fails: catchError runs handleError, which publishes false on the
\* health stream and throws; the rejection is delivered by the next microtask
HttpFailure(t, error) ==
  /\ Quiet
  /\ t.phase = "inflight"
  /\ Becomes(SubjectNext(
       [Cur EXCEPT !.tasks = Replace(@, t,
          [t EXCEPT !.phase = "thrown",
                    !.caught = [message |-> handleError(error),
                                attempt |-> t.attempt]])],
       FALSE))
  /\ ev' = [op |-> "httpFailure", task |-> t, emitted |-> FALSE,
            wasConnected |-> isConnected]
  /\ UNCHANGED <<monitoring, healthPending, initCheckPending, fnVars>>

\* the catch block of executeWithRetry, and the caller's .catch after the last attempt
PromiseRejected(t) ==
  /\ t.phase = "thrown"
  /\ IF IsLastAttempt(t.attempt)
     THEN /\ Becomes(CatchHandler([Cur EXCEPT !.tasks = Remove(@, t)], t.kind,
                                  RethrownError(t).message))
          /\ ev' = [op |-> "rejected", task |-> t, error |-> RethrownError(t)]
     ELSE /\ Becomes([Cur EXCEPT !.tasks = Replace(@, t,
                 [t EXCEPT !.phase = "backoff", !.caught = NoError,
                           !.waits = Append(@, RetryDelay(t.attempt))])])
          /\ ev' = [op |-> "backoff", task |-> t]
  /\ UNCHANGED <<monitoring, healthPending, initCheckPending, fnVars>>

\* the setTimeout of the backoff fires: the loop runs operation() again
BackoffElapsed(t) ==
  /\ Quiet
  /\ t.phase = "backoff"
  /\ IF t.attempt + 1 <= maxRetries
     THEN /\ Becomes([Cur EXCEPT !.tasks = Replace(@, t,
                 [t EXCEPT !.attempt = @ + 1, !.phase = "inflight",
                           !.req = Reissued(Cur, t)])])
          /\ ev' = [op |-> "retry", task |-> t]
     ELSE /\ Becomes(CatchHandler([Cur EXCEPT !.tasks = Remove(@, t)], t.kind,
                                  "All retry attempts failed"))
          /\ ev' = [op |-> "rejected", task |-> t,
                    error |-> [message |-> "All retry attempts failed", attempt |-> 0]]
  /\ UNCHANGED <<monitoring, healthPending, initCheckPending, fnVars>>

---------------------------------------------------------------------------
(* Next-state relations.  Next is the whole program.  Its state space is  *)
(* the product of features that do not read each other's fields, so the   *)
(* properties are checked on slices of it: each slice keeps every action  *)
(* that writes a field its properties read and leaves the other user      *)
(* events out.  Every slice is a sub-relation of Next.                    *)

\* steps of the executeWithRetry calls in progress
TaskStep ==
  \/ \E t \in BagToSet(tasks) : \E r \in Responses(t) : HttpSuccess(t, r)
  \/ \E t \in BagToSet(tasks) : \E e \in HttpErrors : HttpFailure(t, e)
  \/ \E t \in BagToSet(tasks) : PromiseRejected(t)
  \/ \E t \in BagToSet(tasks) : BackoffElapsed(t)

\* steps of the health polling of the service and of the initial check
HealthStep ==
  \/ HealthTick
  \/ \E h \in BOOLEAN : HealthResponse(h)
  \/ HealthFailure
  \/ \E h \in BOOLEAN : InitCheckResponse(h)
  \/ InitCheckFailure

Next ==
  \/ NgOnInit
  \/ NgOnDestroy
  \/ HealthStep
  \/ \E tab \in Tabs : SetActiveTab(tab)
  \/ OpenConnectionModal
  \/ CloseConnectionModal
  \/ ToggleMobileSidebar
  \/ EditForm
  \/ \E d \in Databases : EditDatabase(d)
  \/ \E f \in Files \cup {NoFile} : OnFileSelected(f)
  \/ \E q \in QueryTexts : EditQuery(q)
  \/ ClearQuery
  \/ \E n \in TableNames : SelectTable(n)
  \/ ConnectToDatabase
  \/ TestConnection
  \/ UploadExcel
  \/ RunCustomQuery
  \/ TaskStep

Spec == Init /\ [][Next]_vars

\* the bound on the calls in progress in SpecConnect
FitsConnect == BagCardinality(tasks) <= MaxCalls

\* connecting a data source, by the form or by an upload, and the health stream
NextConnect ==
  \/ NgOnInit
  \/ NgOnDestroy
  \/ HealthTick
  \/ \E h \in BOOLEAN : HealthResponse(h)
  \/ HealthFailure
  \/ \E h \in BOOLEAN : InitCheckResponse(h)
  \/ InitCheckFailure
  \/ OpenConnectionModal
  \/ CloseConnectionModal
  \/ EditForm
  \/ \E f \in Files \cup {NoFile} : OnFileSelected(f)
  \/ ConnectToDatabase /\ FitsConnect'
  \/ UploadExcel /\ FitsConnect'
  \/ \E t \in BagToSet(tasks) : \E r \in Responses(t) : HttpSuccess(t, r)
  \/ \E t \in BagToSet(tasks) : \E e \in HttpErrors : HttpFailure(t, e)
  \/ \E t \in BagToSet(tasks) : PromiseRejected(t)
  \/ \E t \in BagToSet(tasks) : BackoffElapsed(t)

SpecConnect == Init /\ [][NextConnect]_vars

\* the bound on the calls in progress in SpecTables
FitsTables ==
  /\ NumTasks(tasks, "columns") <= MaxSelects
  /\ NumTasks(tasks, "data") <= MaxSelects

\* selecting a table
NextTables ==
  \/ NgOnInit
  \/ \E n \in TableNames : SelectTable(n) /\ FitsTables'
  \/ \E t \in BagToSet(tasks) : \E r \in Responses(t) : HttpSuccess(t, r)
  \/ \E t \in BagToSet(tasks) : \E e \in HttpErrors : HttpFailure(t, e)
  \/ \E t \in BagToSet(tasks) : PromiseRejected(t)
  \/ \E t \in BagToSet(tasks) : BackoffElapsed(t)

SpecTables == Init /\ [][NextTables]_vars

\* the bound on the calls in progress in SpecQuery
FitsQuery == NumTasks(tasks, "query") <= MaxQueries

\* editing and running a query
NextQuery ==
  \/ NgOnInit
  \/ \E q \in QueryTexts : EditQuery(q)
  \/ ClearQuery
  \/ RunCustomQuery /\ FitsQuery'
  \/ \E t \in BagToSet(tasks) : \E r \in Responses(t) : HttpSuccess(t, r)
  \/ \E t \in BagToSet(tasks) : \E e \in HttpErrors : HttpFailure(t, e)
  \/ \E t \in BagToSet(tasks) : PromiseRejected(t)
  \/ \E t \in BagToSet(tasks) : BackoffElapsed(t)

SpecQuery == Init /\ [][NextQuery]_vars

\* the bound on the calls in progress in SpecFetch
FitsFetch ==
  /\ NumTasks(tasks, "columns") <= MaxSelects
  /\ NumTasks(tasks, "data") <= MaxSelects
  /\ NumTasks(tasks, "tables") <= MaxLoads

\* the fetches of a selected table beside a table-list load of a connected view
NextFetch ==
  \/ NgOnInit
  \/ \E h \in BOOLEAN : InitCheckResponse(h)
  \/ InitCheckFailure
  \/ SetActiveTab("tables") /\ FitsFetch'
  \/ \E n \in TableNames : SelectTable(n) /\ FitsFetch'
  \/ \E t \in BagToSet(tasks) : \E r \in Responses(t) : HttpSuccess(t, r)
  \/ \E t \in BagToSet(tasks) : \E e \in HttpErrors : HttpFailure(t, e)
  \/ \E t \in BagToSet(tasks) : PromiseRejected(t)
  \/ \E t \in BagToSet(tasks) : BackoffElapsed(t)

SpecFetch == Init /\ [][NextFetch]_vars

\* nothing has been called yet, or what was called failed: no call is in
\* progress and no field holds a result
FreshView ==
  /\ tasks = EmptyBag
  /\ connectionStatus = "" /\ connectionTestResult = ""
  /\ Len(tables) = 0 /\ Len(columns) = 0 /\ Len(tableData) = 0
  /\ Len(queryResults) = 0

\* every operation of the service, called through executeWithRetry on a fresh view
NextRequests ==
  \/ NgOnInit
  \/ EditForm
  \/ \E f \in Files \cup {NoFile} : OnFileSelected(f)
  \/ \E q \in QueryTexts : EditQuery(q)
  \/ \E n \in TableNames : FreshView /\ SelectTable(n)
  \/ FreshView /\ ConnectToDatabase
  \/ FreshView /\ TestConnection
  \/ FreshView /\ UploadExcel
  \/ FreshView /\ RunCustomQuery
  \/ \E t \in BagToSet(tasks) : \E r \in Responses(t) : HttpSuccess(t, r)
  \/ \E t \in BagToSet(tasks) : \E e \in HttpErrors : HttpFailure(t, e)
  \/ \E t \in BagToSet(tasks) : PromiseRejected(t)
  \/ \E t \in BagToSet(tasks) : BackoffElapsed(t)

SpecRequests == Init /\ [][NextRequests]_vars

\* the scope of SpecSupersede: nothing has completed yet and no connect to the
\* database the form names is in progress
SupersedeScope ==
  /\ connectionStatus = ""
  /\ \A t \in BagToSet(tasks) : t.called # credentials

\* a connect to one database, superseded by a connect to another: the form is
\* filled in and the database it names is changed once
NextSupersede ==
  \/ NgOnInit
  \/ EditForm /\ formValid'
  \/ EditDatabase("db2")
  \/ SupersedeScope /\ ConnectToDatabase
  \/ \E t \in BagToSet(tasks) : \E r \in Responses(t) : HttpSuccess(t, r)
  \/ \E t \in BagToSet(tasks) : \E e \in HttpErrors : HttpFailure(t, e)
  \/ \E t \in BagToSet(tasks) : PromiseRejected(t)
  \/ \E t \in BagToSet(tasks) : BackoffElapsed(t)

SpecSupersede == Init /\ [][NextSupersede]_vars

\* no field holds a result yet
NoResultYet ==
  /\ connectionStatus = "" /\ connectionTestResult = ""
  /\ Len(tables) = 0 /\ Len(queryResults) = 0

\* the scope of SpecLoading: a second operation is started while the first is
\* in progress, before anything has succeeded
LoadingScope == NoResultYet /\ BagCardinality(tasks) <= MaxCalls

\* the operations that set isLoading, two at a time; a connect or a test on an
\* invalid form, which starts nothing, at any time
NextLoading ==
  \/ NgOnInit
  \/ EditForm
  \/ \E f \in Files : OnFileSelected(f)
  \/ EditQuery("Select \"a\"")
  \/ (LoadingScope \/ ~formValid) /\ ConnectToDatabase
  \/ (LoadingScope \/ ~formValid) /\ TestConnection
  \/ LoadingScope /\ UploadExcel
  \/ LoadingScope /\ RunCustomQuery
  \/ \E t \in BagToSet(tasks) : \E r \in Responses(t) : HttpSuccess(t, r)
  \/ \E t \in BagToSet(tasks) : \E e \in HttpErrors : HttpFailure(t, e)
  \/ \E t \in BagToSet(tasks) : PromiseRejected(t)
  \/ \E t \in BagToSet(tasks) : BackoffElapsed(t)

SpecLoading == Init /\ [][NextLoading]_vars

\* the bound on the calls in progress in SpecReselect
FitsReselect ==
  /\ NumTasks(tasks, "columns") <= MaxOverlap
  /\ NumTasks(tasks, "data") <= MaxOverlap

\* the scope of SpecReselect: another table is selected before any fetch has
\* brought a result
ReselectScope(n) ==
  /\ Truthy(n) /\ n # selectedTable
  /\ Len(columns) = 0 /\ Len(tableData) = 0

\* selecting a table while the fetches of the table selected before are in
\* progress
NextReselect ==
  \/ NgOnInit
  \/ \E n \in TableNames : ReselectScope(n) /\ SelectTable(n) /\ FitsReselect'
  \/ \E t \in BagToSet(tasks) : \E r \in Responses(t) : HttpSuccess(t, r)
  \/ \E t \in BagToSet(tasks) : \E e \in HttpErrors : HttpFailure(t, e)
  \/ \E t \in BagToSet(tasks) : PromiseRejected(t)
  \/ \E t \in BagToSet(tasks) : BackoffElapsed(t)

SpecReselect == Init /\ [][NextReselect]_vars

\* the bound on the calls in progress in SpecTabs
FitsTabs == NumTasks(tasks, "tables") <= MaxLoads

\* the tabs and the mobile sidebar of a view that the health checks connect
\* and disconnect
NextTabs ==
  \/ NgOnInit
  \/ HealthTick
  \/ \E h \in BOOLEAN : HealthResponse(h)
  \/ HealthFailure
  \/ \E h \in BOOLEAN : InitCheckResponse(h)
  \/ InitCheckFailure
  \/ ToggleMobileSidebar
  \/ \E tab \in Tabs : SetActiveTab(tab) /\ FitsTabs'
  \/ \E t \in BagToSet(tasks) : \E r \in Responses(t) : HttpSuccess(t, r)
  \/ \E t \in BagToSet(tasks) : \E e \in HttpErrors : HttpFailure(t, e)
  \/ \E t \in BagToSet(tasks) : PromiseRejected(t)
  \/ \E t \in BagToSet(tasks) : BackoffElapsed(t)

SpecTabs == Init /\ [][NextTabs]_vars

---------------------------------------------------------------------------
(* isSuccessResponse applied to response texts: every concatenation of at *)
(* most MaxParts fragments, so that a keyword can also arise across the   *)
(* border of two fragments, and the examples of the specification         *)

Fragments ==
  {"error", "Error", "FAILED", "invalid", "not found", "success", "Connected",
   "created", "uploaded", "err", "or", "not", " found", " ", "ok", "row 4"}

RECURSIVE Concatenations(_)
Concatenations(n) ==
  IF n = 0 THEN {""}
  ELSE LET shorter == Concatenations(n - 1) IN
       shorter \cup {a \o b : a \in shorter, b \in Fragments}

ResponseTexts ==
  Concatenations(MaxParts)
    \cup {"Connected successfully to database", "Error: invalid password",
          "uploaded but error parsing row 4"}

InitClassify ==
  /\ InitProgram
  /\ message \in ResponseTexts
  /\ verdict = <<>>

Classify ==
  /\ verdict = <<>>
  /\ verdict' = <<isSuccessResponse(message)>>
  /\ UNCHANGED <<ctlVars, svcVars, tasks, ev, message>>

NextClassify == Classify

SpecClassify == InitClassify /\ [][NextClassify]_vars

---------------------------------------------------------------------------
(* handleError applied to HttpErrorResponse values: every status of a     *)
(* range of kinds with every shape of body                                *)

Statuses == {0, 400, 401, 403, 404, 409, 422, 499, 500, 503}

\* error.error: absent, a string (empty or not), an object with or without a
\* message, or the ErrorEvent of a client-side failure
Bodies ==
  { [type |-> "null"],
    [type |-> "string", text |-> ""],
    [type |-> "string", text |-> "Login failed for user"],
    [type |-> "object", message |-> "Database does not exist"],
    [type |-> "object", message |-> ""],
    [type |-> "ErrorEvent", message |-> "script error"] }

HttpErrorResponses ==
  { [status |-> st, error |-> b,
     message |-> "Http failure response: " \o ToString(st)] :
      st \in Statuses, b \in Bodies }

InitHandleError ==
  /\ InitProgram
  /\ message \in HttpErrorResponses
  /\ verdict = <<>>

ApplyHandleError ==
  /\ verdict = <<>>
  /\ verdict' = <<handleError(message)>>
  /\ UNCHANGED <<ctlVars, svcVars, tasks, ev, message>>

NextHandleError == ApplyHandleError

SpecHandleError == InitHandleError /\ [][NextHandleError]_vars

---------------------------------------------------------------------------
(* Properties of executeWithRetry (SpecConnect) *)

Rejected == ev.op = "rejected"

\* C1: executeWithRetry makes at most 3 attempts; when every attempt fails it
\* rejects after exactly 3 attempts, with the error of the 3rd attempt, and no
\* call in progress is ever at a 4th attempt
RetryAtMostThreeAttempts ==
  /\ \A t \in BagToSet(tasks) : t.attempt \in 1..3
  /\ Rejected => /\ ev.task.attempt = 3
                 /\ ev.error.attempt = 3
                 /\ ev.error.message # ""

\* a call was rejected after three failed attempts
RejectedAfterThreeAttempts ==
  Rejected /\ ev.task.attempt = 3 /\ ev.error.attempt = 3

\* C2 as stated: the waits of a call that failed three times are 1 s and 2 s
WaitsOneThenTwoSeconds == Rejected => ev.task.waits = <<1000, 2000>>

\* C2, amended: the waits of a call that failed three times are 2 s after the
\* 1st attempt and 4 s after the 2nd, and there is no wait after the 3rd failure
WaitsTwoThenFourSeconds ==
  /\ Rejected => ev.task.waits = <<2000, 4000>>
  /\ \A t \in BagToSet(tasks) :
       t.phase = "backoff" =>
         /\ t.attempt \in {1, 2}
         /\ Len(t.waits) = t.attempt
         /\ t.waits[1] = 2000
         /\ t.attempt = 2 => t.waits[2] = 4000

\* a call is in its second wait, of 4 s
InSecondWait ==
  \E t \in BagToSet(tasks) :
    t.phase = "backoff" /\ t.attempt = 2 /\ t.waits = <<2000, 4000>>

---------------------------------------------------------------------------
(* Properties of isSuccessResponse (SpecClassify) *)

HasErrorKeyword(m) ==
  \E k \in {"error", "failed", "invalid", "not found"} : Includes(ToLowerCase(m), k)

HasSuccessKeyword(m) ==
  \E k \in {"success", "connected", "created", "uploaded"} : Includes(ToLowerCase(m), k)

\* C3: a text that contains an error keyword, in any case, is classified as a
\* failure, also when it contains success keywords
ErrorKeywordWins ==
  (verdict # <<>> /\ HasErrorKeyword(message)) => verdict = <<FALSE>>

\* a text with a success keyword and an error keyword was classified as a failure
ClassifiedBothKeywords ==
  /\ verdict = <<FALSE>>
  /\ HasErrorKeyword(message)
  /\ HasSuccessKeyword(message)
  /\ message = "uploaded but error parsing row 4"

\* C4: a text with no error keyword and no success keyword, the empty text
\* included, is classified as a success: the fallback never yields false
NoKeywordIsSuccess ==
  (verdict # <<>> /\ ~HasErrorKeyword(message) /\ ~HasSuccessKeyword(message))
    => verdict = <<TRUE>>

\* the empty text was classified as a success
ClassifiedEmptyText ==
  verdict = <<TRUE>> /\ message = "" /\ ~HasErrorKeyword(message)
    /\ ~HasSuccessKeyword(message)

---------------------------------------------------------------------------
(* Properties of connecting and of the health stream (SpecConnect) *)

\* the step is the completion of a connect or of an upload that succeeded
ConnectResolved ==
  ev'.op = "resolved" /\ ev'.task.kind \in {"connect", "upload"}

\* the step is the completion of a connect or of an upload that failed three times
ConnectRejected ==
  ev'.op = "rejected" /\ ev'.task.kind \in {"connect", "upload"}

\* table-list loads the step started
LoadsStarted == NumTasks(tasks', "tables") - NumTasks(tasks, "tables")

\* C5: a connect or upload completion sets isConnected to true only if the
\* operation succeeded and isSuccessResponse classifies the status text as a
\* success; when it succeeded with a text classified as a failure, isConnected
\* is false, no table-list load is started and the modal stays as it was
ConnectedOnlyIfClassifiedSuccess ==
  [][ /\ ConnectResolved =>
           /\ isConnected' = isSuccessResponse(connectionStatus')
           /\ ~isSuccessResponse(connectionStatus') =>
                 /\ ~isConnected'
                 /\ LoadsStarted = 0
                 /\ showConnectionModal' = showConnectionModal
      /\ ConnectRejected => ~isConnected'
    ]_vars

\* a connect succeeded with a text classified as a failure, the modal being open
ConnectAnsweredFailureText ==
  /\ ev.op = "resolved" /\ ev.task.kind = "connect"
  /\ ev.response = "Error: invalid password"
  /\ connectionStatus = "Error: invalid password"
  /\ ~isConnected
  /\ showConnectionModal
  /\ NumTasks(tasks, "tables") = 0

\* the step publishes a value on the health stream
HealthEmission == ev'.op \in {"healthResponse", "healthFailure", "httpFailure"}

\* C6 as stated: whenever a connect completion, an upload completion or a
\* health emission changes isConnected from false to true, one table-list load
\* is started, none when tables is non-empty, and the modal is closed
LoadOnceOnEveryConnectedEntry ==
  [][ (~isConnected /\ isConnected' /\ (ConnectResolved \/ HealthEmission)) =>
        /\ LoadsStarted = (IF Len(tables) = 0 THEN 1 ELSE 0)
        /\ ~showConnectionModal'
    ]_vars

\* C6, amended: whenever a connect or upload completion changes isConnected
\* from false to true, exactly one table-list load is started, also when tables
\* is non-empty, and the modal is closed; a health emission that changes
\* isConnected from false to true starts no load and leaves the modal as it was
LoadOnceOnConnectCompletion ==
  [][ (~isConnected /\ isConnected') =>
        /\ ConnectResolved => (LoadsStarted = 1 /\ ~showConnectionModal')
        /\ HealthEmission =>
             (LoadsStarted = 0 /\ showConnectionModal' = showConnectionModal)
    ]_vars

\* a connect completion made the controller connected while tables was
\* populated, and started a load
ReconnectedWithTablesLoaded ==
  /\ ev.op = "resolved" /\ ev.task.kind = "connect"
  /\ ~ev.wasConnected /\ isConnected
  /\ Len(tables) > 0
  /\ NumTasks(tasks, "tables") = 1
  /\ ~showConnectionModal

\* C7: when the health stream emits false while the subscribed controller is
\* connected, isConnected is false after the step; when it emits the value
\* isConnected has, isConnected and connectionStatus do not change
UnhealthyEmissionDisconnects ==
  [][ (HealthEmission /\ view = "active") =>
        /\ (~connectionHealth' /\ isConnected) => ~isConnected'
        /\ (connectionHealth' = isConnected) =>
             (isConnected' = isConnected /\ connectionStatus' = connectionStatus)
    ]_vars

\* the health poll reported unhealthy to a connected, subscribed controller
PollReportedUnhealthyWhileConnected ==
  /\ ev.op = "healthResponse" /\ ~ev.emitted
  /\ view = "active"
  /\ ev.wasConnected
  /\ ~connectionHealth
  /\ ~isConnected

---------------------------------------------------------------------------
(* Properties of selecting a table (SpecTables) *)

\* the step started exactly one call of this kind, whose request targets name
StartedOne(kind, name) ==
  /\ NumTasks(tasks', kind) = NumTasks(tasks, kind) + 1
  /\ \E t \in BagToSet(tasks') :
       /\ t.kind = kind /\ t.req = name /\ t.attempt = 1 /\ t.phase = "inflight"
       /\ CopiesIn(t, tasks') = CopiesIn(t, tasks) + 1

\* C8 as stated: every selectTable(name) starts exactly one columns fetch and
\* exactly one row-data fetch for that table, for every value of name
SelectAlwaysFetchesBoth ==
  [][ ev'.op = "selectTable" =>
        (StartedOne("columns", ev'.name) /\ StartedOne("data", ev'.name))
    ]_vars

\* C8, amended: every selectTable(name) with a non-empty name starts exactly one
\* columns fetch and exactly one row-data fetch for that table; with the empty
\* name it starts no fetch
SelectNamedFetchesBoth ==
  [][ ev'.op = "selectTable" =>
        IF ev'.name # ""
        THEN /\ StartedOne("columns", ev'.name)
             /\ StartedOne("data", ev'.name)
             /\ BagCardinality(tasks') = BagCardinality(tasks) + 2
        ELSE tasks' = tasks
    ]_vars

\* a table was selected and its two fetches are in flight
SelectedWithBothFetches ==
  /\ ev.op = "selectTable" /\ ev.name = "A"
  /\ selectedTable = "A"
  /\ NumTasks(tasks, "columns") = 1
  /\ NumTasks(tasks, "data") = 1

---------------------------------------------------------------------------
(* Properties of running a query (SpecQuery) *)

Blank(q) == Trim(q) = ""

\* the run-query requests in flight
QueryRequests(b) == {t \in BagToSet(b) : t.kind = "query" /\ t.phase = "inflight"}

\* the request bodies that carry an empty or whitespace-only text
BlankBodies == {JsonStringify(q) : q \in {x \in QueryTexts : Blank(x)}}

\* C9: no run-query request carries an empty or whitespace-only text, and
\* runCustomQuery with such a text leaves isLoading and queryResults unchanged
\* and starts nothing
NoBlankQueryRequest ==
  [][ /\ \A t \in QueryRequests(tasks') : t.req \notin BlankBodies
      /\ (ev'.op = "runCustomQuery" /\ Blank(customQuery)) =>
           (isLoading' = isLoading /\ queryResults' = queryResults /\ tasks' = tasks)
    ]_vars

\* C10: every run-query request of a runCustomQuery call, retries included,
\* carries the text customQuery held when runCustomQuery was called
QueryRequestCarriesCalledText ==
  \A t \in QueryRequests(tasks) : t.req = JsonStringify(t.called)

---------------------------------------------------------------------------
(* Properties of the two fetches of a selected table (SpecFetch) *)

\* the step is the completion handler of a call of this kind, after a success
ResolvedKind(kind) == ev'.op = "resolved" /\ ev'.task.kind = kind

\* the step is the completion handler of a call of this kind, after 3 failures
RejectedKind(kind) == ev'.op = "rejected" /\ ev'.task.kind = kind

\* the step assigns none of isLoading, isConnected and tables
FetchFrame ==
  /\ isLoading' = isLoading
  /\ isConnected' = isConnected
  /\ tables' = tables

\* C11: a columns fetch that fails after its retries sets columns to empty and
\* leaves tableData unchanged, a data fetch that fails sets tableData to empty
\* and leaves columns unchanged, a fetch that succeeds writes its own field
\* only, and no completion of either changes isLoading, isConnected or tables
FetchesAreIndependent ==
  [][ /\ RejectedKind("columns") =>
           (columns' = <<>> /\ tableData' = tableData /\ FetchFrame)
      /\ RejectedKind("data") =>
           (tableData' = <<>> /\ columns' = columns /\ FetchFrame)
      /\ ResolvedKind("columns") =>
           (columns' = ev'.response /\ tableData' = tableData /\ FetchFrame)
      /\ ResolvedKind("data") =>
           (tableData' = ev'.response /\ columns' = columns /\ FetchFrame)
    ]_vars

\* the data fetch completed first and the columns fetch then failed, while a
\* table-list load kept isLoading set
ColumnsFailedAfterRowsArrived ==
  /\ ev.op = "rejected" /\ ev.task.kind = "columns"
  /\ selectedTable = "A"
  /\ columns = <<>>
  /\ tableData = RowsOf("A")
  /\ isLoading
  /\ NumTasks(tasks, "tables") = 1

---------------------------------------------------------------------------
(* Properties of the requests of the service (SpecRequests) *)

\* the HTTP requests in flight
InFlight(b) ==
  BagCardinality([t \in {u \in BagToSet(b) : u.phase = "inflight"} |-> b[t]])

\* the executeWithRetry calls the step started
CallsStarted == BagCardinality(tasks') - BagCardinality(tasks)

\* the events of the controller that call an operation of the service
CallingEvents ==
  {"connectToDatabase", "testConnection", "uploadExcel", "selectTable",
   "runCustomQuery", "setActiveTab", "resolved", "retry"}

---------------------------------------------------------------------------
(* Properties of the health polling (SpecConnect) *)

\* C13: as long as health monitoring has not been stopped (the view is not
\* destroyed) the timer keeps polling, also after a health request has failed,
\* and the outcome of every health request is the value the health stream holds
PollingContinuesUntilStopped ==
  /\ ev.op \in {"healthResponse", "healthFailure"} => connectionHealth = ev.emitted
  /\ view # "destroyed" => monitoring

\* the steps that assign isConnected
ConnectedWriters ==
  {"healthResponse", "healthFailure", "httpFailure", "resolved", "rejected",
   "initCheckResponse", "initCheckFailure"}

\* C14: health emissions and connect completions write isConnected with
\* last-write-wins semantics: an emission leaves the subscribed controller with
\* the emitted value whatever a connect wrote before, a connect completion
\* leaves it with its own outcome whatever was emitted before, and no step
\* between them changes it
LastWriteWins ==
  [][ /\ (HealthEmission /\ view = "active") => isConnected' = ev'.emitted
      /\ ConnectResolved => isConnected' = isSuccessResponse(connectionStatus')
      /\ ConnectRejected => ~isConnected'
      /\ isConnected' # isConnected => ev'.op \in ConnectedWriters
    ]_vars

\* a success-classified connect was followed by an unhealthy report
UnhealthyAfterConnected ==
  /\ ev.op = "healthResponse" /\ ~ev.emitted /\ ev.wasConnected
  /\ connectionStatus = ConnectionLost
  /\ Len(tables) > 0
  /\ ~isConnected

---------------------------------------------------------------------------
(* Properties of superseded connects (SpecSupersede) *)

\* the events that are steps of one executeWithRetry call
CallEvents == {"resolved", "httpFailure", "backoff", "retry", "rejected"}

\* C15: no call is cancelled when it is superseded: a call in progress changes
\* or ends only by its own steps, also when a second connect is started, and
\* the completion of a connect writes its own outcome to connectionStatus and
\* isConnected whatever completed before it
SupersededConnectCompletes ==
  [][ /\ \A t \in BagToSet(tasks) :
           CopiesIn(t, tasks') < CopiesIn(t, tasks) =>
             (ev'.op \in CallEvents /\ ev'.task = t)
      /\ ResolvedKind("connect") =>
           /\ connectionStatus' = OrDefault(ev'.response, "Connected successfully")
           /\ isConnected' = isSuccessResponse(connectionStatus')
      /\ RejectedKind("connect") =>
           /\ connectionStatus' = "Error: " \o ev'.error.message
           /\ ~isConnected'
    ]_vars

\* the connect to db1 was retrying when the connect to db2 was started; the one
\* to db2 connected, and the one to db1 completed last and overwrote it
StaleConnectOverwrote ==
  /\ ev.op = "resolved" /\ ev.task.kind = "connect"
  /\ ev.task.called = "db1" /\ ev.task.attempt >= 2
  /\ credentials = "db2"
  /\ ev.wasConnected
  /\ ~isConnected
  /\ connectionStatus = "Error: invalid password"
  /\ NumTasks(tasks, "connect") = 0

---------------------------------------------------------------------------
(* Properties of the teardown (SpecConnect) *)

\* C16: after ngOnDestroy the timer issues no health request, none is in
\* flight, and no emission on the health stream, by the timer or by a failing
\* call of the service, changes isConnected or connectionStatus
DestroyedViewIgnoresHealth ==
  [][ view = "destroyed" =>
        /\ ev'.op # "healthTick"
        /\ ~healthPending' /\ ~monitoring'
        /\ HealthEmission =>
             (isConnected' = isConnected /\ connectionStatus' = connectionStatus)
    ]_vars

\* a call of the service failed after the view was destroyed: false was
\* published and the controller stayed connected
FailureAfterDestroyIgnored ==
  /\ view = "destroyed"
  /\ ev.op = "httpFailure" /\ ~ev.emitted
  /\ ~connectionHealth
  /\ ev.wasConnected /\ isConnected

---------------------------------------------------------------------------
(* Properties of handleError (SpecHandleError) *)

\* the failure is one of the server side, and in none of the three classes of
\* status that have a message of their own
PlainStatus(e) == e.status # 0 /\ e.status < 500 /\ e.status # 404

\* C17: for a failure that is not client-side, status 0 gives the message
\* 'Unable to connect to server', a status >= 500 the message 'Server error',
\* status 404 the message 'Service not found', whatever the body; any other
\* status gives a string body itself, else the message of an object body, else
\* the transport message, and 'Server Error (<status>): ...' without a body
HandleErrorByStatus ==
  (verdict # <<>> /\ message.error.type # "ErrorEvent") =>
    LET e == message
        m == verdict[1] IN
    /\ e.status = 0 =>
         m = "Unable to connect to server. Please check your connection."
    /\ e.status >= 500 => m = "Server error. Please try again later."
    /\ e.status = 404 => m = "Service not found. Please check the API endpoint."
    /\ (PlainStatus(e) /\ e.error.type = "string" /\ e.error.text # "") =>
         m = e.error.text
    /\ (PlainStatus(e) /\ e.error.type = "object") =>
         m = (IF e.error.message # "" THEN e.error.message ELSE e.message)
    /\ (PlainStatus(e) /\ (e.error.type = "null"
                           \/ (e.error.type = "string" /\ e.error.text = ""))) =>
         m = "Server Error (" \o ToString(e.status) \o "): " \o e.message

\* a 404 with a text body was mapped to the message of the status
NotFoundWithBodyMapped ==
  /\ verdict = <<"Service not found. Please check the API endpoint.">>
  /\ message.status = 404
  /\ message.error = [type |-> "string", text |-> "Login failed for user"]

---------------------------------------------------------------------------
(* Properties of isLoading (SpecLoading) *)

\* the operations that set isLoading when they start
LoadingKinds == {"connect", "upload", "test", "tables", "query"}

\* C18: when a connect, upload, test-connection, table-list or query operation
\* has failed 3 times its completion handler sets isLoading to false, and
\* isLoading is false whenever none of these operations is in progress
NeverStuckLoading ==
  [][ /\ (ev'.op = "rejected" /\ ev'.task.kind \in LoadingKinds) => ~isLoading'
      /\ (\A t \in BagToSet(tasks') : t.kind \notin LoadingKinds) => ~isLoading'
    ]_vars

\* a connect and a query ran together: the connect ended in an error and the
\* query then failed for the 3rd time
BothFailedNotLoading ==
  /\ ev.op = "rejected" /\ ev.task.kind = "query" /\ ev.task.attempt = 3
  /\ Includes(connectionStatus, "Error: ")
  /\ tasks = EmptyBag
  /\ ~isLoading

---------------------------------------------------------------------------
(* Properties of the credential form (SpecLoading) *)

\* C19: a connect or a test is started only from a valid credential form; with
\* an invalid form connectToDatabase and testConnection send no request and
\* leave isLoading, isConnected, connectionStatus, connectionTestResult and
\* tables unchanged
InvalidFormStartsNothing ==
  [][ /\ (ev'.op \in {"connectToDatabase", "testConnection"} /\ ~formValid) =>
           /\ tasks' = tasks
           /\ isLoading' = isLoading
           /\ isConnected' = isConnected
           /\ connectionStatus' = connectionStatus
           /\ connectionTestResult' = connectionTestResult
           /\ tables' = tables
      /\ (NumTasks(tasks', "connect") > NumTasks(tasks, "connect")
          \/ NumTasks(tasks', "test") > NumTasks(tasks, "test")) => formValid
    ]_vars

\* a test was asked for on an invalid form while the result of an earlier test
\* was shown and a query was in progress
TestOnInvalidForm ==
  /\ ev.op = "testConnection"
  /\ ~formValid
  /\ connectionTestResult # ""
  /\ NumTasks(tasks, "query") = 1
  /\ NumTasks(tasks, "test") = 0 /\ NumTasks(tasks, "connect") = 0

---------------------------------------------------------------------------
(* Properties of a success inside executeWithRetry (SpecRequests) *)

\* the calls the step started
NewCalls == {u \in BagToSet(tasks') : CopiesIn(u, tasks') > CopiesIn(u, tasks)}

\* the field a success of the operation is reported in holds this response
ReportedAsSuccess(kind, r) ==
  CASE kind = "connect" -> connectionStatus' = OrDefault(r, "Connected successfully")
    [] kind = "upload" -> connectionStatus' = OrDefault(r, "Excel uploaded successfully")
    [] kind = "test" -> connectionTestResult' = OrDefault(r, "Connection test successful")
    [] kind = "tables" -> tables' = r
    [] kind = "columns" -> columns' = r
    [] kind = "data" -> tableData' = r
    [] kind = "query" -> queryResults' = r

\* C20: once an attempt succeeds executeWithRetry resolves with the value of
\* that attempt: the call is over, it makes no further attempt and sends no
\* further request, and the caller gets the value as a plain success, with no
\* error of an earlier attempt, also when it is the 2nd or 3rd attempt
SuccessEndsTheCall ==
  [][ ev'.op = "resolved" =>
        LET t == ev'.task IN
        /\ t.caught = NoError
        /\ CopiesIn(t, tasks') = CopiesIn(t, tasks) - 1
        /\ \A u \in NewCalls :
             u.kind = "tables" /\ u.attempt = 1 /\ t.kind \in {"connect", "upload"}
        /\ ReportedAsSuccess(t.kind, ev'.response)
    ]_vars

\* a query succeeded on its 3rd attempt
ThirdAttemptSucceeded ==
  /\ ev.op = "resolved" /\ ev.task.kind = "query" /\ ev.task.attempt = 3
  /\ ev.task.waits = <<2000, 4000>>
  /\ queryResults = QueryRows
  /\ tasks = EmptyBag
  /\ ~isLoading

---------------------------------------------------------------------------
(* Properties of the false that handleError publishes (SpecLoading) *)

\* C21: a request of the service that fails publishes false on the health
\* stream before the error reaches the caller: in the step of the failure the
\* stream holds false, a subscribed controller is not connected, and the call
\* has its error still to handle, with isLoading as it was
FailedRequestPublishesUnhealthy ==
  [][ ev'.op = "httpFailure" =>
        /\ ~connectionHealth'
        /\ view = "active" => ~isConnected'
        /\ \E u \in BagToSet(tasks') :
             /\ u.phase = "thrown" /\ u.kind = ev'.task.kind
             /\ u.attempt = ev'.task.attempt
        /\ isLoading' = isLoading
    ]_vars

\* a query failed while the controller was connected, with no health poll
QueryFailureDisconnected ==
  /\ ev.op = "httpFailure" /\ ev.task.kind = "query"
  /\ view = "active"
  /\ ev.wasConnected
  /\ ~isConnected
  /\ ~healthPending

---------------------------------------------------------------------------
(* Properties of a failed table-list load (SpecConnect) *)

\* C22: when the table-list load has failed 3 times, tables is set to empty;
\* connectionStatus becomes 'Connected but cannot load tables: <message>' when
\* the controller is connected at that moment and is left unchanged when it is
\* not
FailedLoadReportedWhenConnected ==
  [][ RejectedKind("tables") =>
        /\ tables' = <<>>
        /\ isConnected =>
             connectionStatus' =
               "Connected but cannot load tables: " \o ev'.error.message
        /\ ~isConnected => connectionStatus' = connectionStatus
    ]_vars

\* the table-list load failed 3 times while the controller was connected
LoadFailedWhileConnected ==
  /\ ev.op = "rejected" /\ ev.task.kind = "tables" /\ ev.task.attempt = 3
  /\ isConnected
  /\ tables = <<>>
  /\ connectionStatus =
       "Connected but cannot load tables: Unable to connect to server. Please check your connection."

---------------------------------------------------------------------------
(* Properties of the connection-lost text (SpecConnect) *)

\* a health emission switches the subscribed controller from connected to not
HealthLost == HealthEmission /\ view = "active" /\ isConnected /\ ~isConnected'

\* the status texts a connect or an upload classified as a success leaves
ConnectedTexts ==
  {t \in {OrDefault(r, "Connected successfully") : r \in ConnectResponses}
           \cup {OrDefault(r, "Excel uploaded successfully") : r \in UploadResponses} :
     isSuccessResponse(t)}

\* the status is replaced exactly when it contains 'success', as it is written
ReplacedIfContainsSuccess ==
  connectionStatus' =
    (IF Includes(connectionStatus, "success") THEN ConnectionLost ELSE connectionStatus)

\* C23 as stated: when a health emission switches isConnected from true to
\* false, connectionStatus is replaced by the connection-lost text exactly when
\* it contains 'success', and after a connect classified as success a loss of
\* health always shows the connection-lost text
LossAfterConnectShowsLost ==
  [][ HealthLost =>
        /\ ReplacedIfContainsSuccess
        /\ connectionStatus \in ConnectedTexts => connectionStatus' = ConnectionLost
    ]_vars

\* C23, amended: when a health emission switches isConnected from true to
\* false, connectionStatus is replaced by the connection-lost text exactly when
\* it contains 'success'; after a connect classified as success the text is
\* shown only if the status of the connect contains 'success', and a status
\* without it stays
LossShowsLostIfStatusHasSuccess ==
  [][ HealthLost =>
        /\ ReplacedIfContainsSuccess
        /\ connectionStatus \in ConnectedTexts =>
             (connectionStatus' = ConnectionLost <=> Includes(connectionStatus, "success"))
        /\ (connectionStatus \in ConnectedTexts /\ ~Includes(connectionStatus, "success")) =>
             connectionStatus' = connectionStatus
    ]_vars

\* health was lost after a connect classified as success by the fallback, and
\* its status text stayed
LostWithStatusKept ==
  /\ ev.op = "healthResponse" /\ ~ev.emitted /\ ev.wasConnected
  /\ view = "active"
  /\ ~isConnected
  /\ connectionStatus = "Connection Ready"

---------------------------------------------------------------------------
(* Properties of the tabs (SpecTabs) *)

\* C24: setActiveTab(tab) with a tab other than 'dashboard' while not connected
\* changes nothing and sends no request; while connected it sets activeTab to
\* tab, closes the mobile sidebar, and starts a table-list load only when tab
\* is 'metadata' or 'tables' and tables is empty
TabSwitchNeedsConnection ==
  [][ ev'.op = "setActiveTab" =>
        /\ (ev'.tab # "dashboard" /\ ~isConnected) =>
             /\ activeTab' = activeTab
             /\ mobileSidebarOpen' = mobileSidebarOpen
             /\ tables' = tables
             /\ tasks' = tasks
        /\ isConnected =>
             /\ activeTab' = ev'.tab
             /\ ~mobileSidebarOpen'
             /\ LoadsStarted =
                  (IF ev'.tab \in {"metadata", "tables"} /\ Len(tables) = 0
                   THEN 1 ELSE 0)
    ]_vars

\* the metadata tab was opened while connected with the tables there: no load
MetadataOpenedWithTables ==
  /\ ev.op = "setActiveTab" /\ ev.tab = "metadata"
  /\ isConnected
  /\ activeTab = "metadata"
  /\ Len(tables) > 0
  /\ NumTasks(tasks, "tables") = 0
  /\ ~mobileSidebarOpen

\* C25 as stated: in every reachable state, activeTab is different from
\* 'dashboard' only if isConnected is true
DataTabOnlyWhileConnected == activeTab # "dashboard" => isConnected

\* C25: activeTab changes to a tab other than 'dashboard' only in a step that
\* starts with isConnected true; a later loss of the connection leaves it
DataTabEnteredWhileConnected ==
  [][ (activeTab' # activeTab /\ activeTab' # "dashboard") => isConnected ]_vars

\* a health emission disconnected the view while a data tab was shown
DataTabShownDisconnected ==
  /\ ev.op = "healthResponse" /\ ev.wasConnected
  /\ ~isConnected
  /\ activeTab = "tables"

---------------------------------------------------------------------------
(* Properties of overlapping table selections (SpecReselect) *)

\* C26 as stated: every columns or row-data request issued on behalf of one
\* selectTable(A) call, retry attempts included, targets table A, even when
\* another table is selected during the backoff wait
FetchTargetsItsTable ==
  \A t \in BagToSet(tasks) :
    (t.kind \in {"columns", "data"} /\ t.phase = "inflight" /\ Truthy(t.called))
      => t.req = t.called

\* no columns fetch and no row-data fetch is in progress
FetchesSettled == NumTasks(tasks, "columns") = 0 /\ NumTasks(tasks, "data") = 0

\* C27 as stated: whenever no columns fetch and no row-data fetch is in flight,
\* columns and tableData hold the outcome (result, or empty on failure) of the
\* fetches for the currently selected table
SettledShowsSelectedTable ==
  FetchesSettled =>
    /\ columns \in {<<>>, ColumnsOf(selectedTable)}
    /\ tableData \in {<<>>, RowsOf(selectedTable)}

\* C27: columns holds the outcome of the columns fetch that completed last and
\* tableData that of the row-data fetch that completed last (the answer to its
\* request, or empty on failure), whichever table is selected at that moment;
\* no other step writes them
LastCompletionWins ==
  [][ /\ ResolvedKind("columns") => columns' = ColumnsOf(ev'.task.req)
      /\ ResolvedKind("data") => tableData' = RowsOf(ev'.task.req)
      /\ RejectedKind("columns") => columns' = <<>>
      /\ RejectedKind("data") => tableData' = <<>>
      /\ columns' # columns => (ResolvedKind("columns") \/ RejectedKind("columns"))
      /\ tableData' # tableData => (ResolvedKind("data") \/ RejectedKind("data"))
    ]_vars

\* all fetches have settled and the columns of A, which arrived after those of
\* B, are shown under the selected table B
StaleColumnsShown ==
  /\ FetchesSettled
  /\ selectedTable = "B"
  /\ ev.op = "resolved" /\ ev.task.kind = "columns" /\ ev.task.called = "A"
  /\ columns = ColumnsOf("A")
  /\ tableData = RowsOf("B")

---------------------------------------------------------------------------
(* Properties of isLoading under overlapping operations (SpecLoading) *)

\* C28 as stated: isLoading is true whenever at least one connect, upload,
\* test-connection, table-list or query operation is in flight, for any overlap
\* of such operations
LoadingWhileAnyInFlight ==
  (\E t \in BagToSet(tasks) : t.kind \in LoadingKinds) => isLoading

\* C28: the start of a connect, upload, test-connection, table-list or query
\* operation sets isLoading, and isLoading goes back to false only in the
\* completion handler of one of these operations, which may run while another
\* of them is still in flight
LoadingUntilFirstCompletion ==
  [][ /\ (\E u \in NewCalls :
             u.attempt = 1 /\ u.phase = "inflight" /\ u.kind \in LoadingKinds)
           => isLoading'
      /\ (isLoading /\ ~isLoading') =>
           (ev'.op \in {"resolved", "rejected"} /\ ev'.task.kind \in LoadingKinds)
    ]_vars

\* a test and a query ran together: the test failed for the 3rd time and
\* cleared isLoading while the query is still waiting for its answer
QueryInFlightNotLoading ==
  /\ ev.op = "rejected" /\ ev.task.kind = "test"
  /\ NumTasks(tasks, "query") = 1
  /\ \E t \in BagToSet(tasks) : t.kind = "query" /\ t.phase = "inflight"
  /\ ~isLoading

---------------------------------------------------------------------------
(* Properties of isConnected and the health reports (SpecConnect) *)

\* the step is a health report of true that reaches the controller: an
\* emission of the stream to the subscribed view, or the answer to the check
\* ngOnInit makes
HealthyReport ==
  \/ ev'.op = "healthResponse" /\ ev'.emitted /\ view = "active"
  \/ ev'.op = "initCheckResponse" /\ isConnected'

\* C29 as stated: isConnected is true only if a connect or upload has completed
\* successfully with a status text classified as success.  Every completion of
\* a connect or an upload writes a connectionStatus that is neither empty nor
\* 'Not connected', so with one of these two texts none has completed
ConnectedOnlyAfterConnect ==
  isConnected => connectionStatus \notin {"", "Not connected"}

\* C29: isConnected becomes true only by a connect or upload that completed
\* successfully with a status text classified as success, or by a health
\* report of true (an emission of the health stream or the initial health
\* check), which needs no connect in this view
ConnectedByConnectOrHealth ==
  [][ (~isConnected /\ isConnected') =>
        \/ ConnectResolved /\ isSuccessResponse(connectionStatus')
        \/ HealthyReport
    ]_vars

\* the initial health check answered healthy: connected, and nothing was
\* connected in this view
ConnectedWithoutConnect ==
  /\ ev.op = "initCheckResponse"
  /\ isConnected
  /\ connectionStatus = ""
  /\ tasks = EmptyBag

StartsWithError(text) == Len(text) >= 7 /\ SubSeq(text, 1, 7) = "Error: "

\* the texts connectionStatus reports a failure with
FailureText(text) ==
  text = "Not connected" \/ text = ConnectionLost \/ StartsWithError(text)

\* C30 as stated: in every reachable state with isConnected = true,
\* connectionStatus is not 'Not connected', not the connection-lost text, and
\* does not start with 'Error: '
ConnectedStatusNotFailure == isConnected => ~FailureText(connectionStatus)

\* C30: a health report of true sets isConnected and leaves connectionStatus as
\* it is, failure text or not; a connect or upload completion that sets
\* isConnected writes the text it classified as success, which does not start
\* with 'Error: '; a state with isConnected and a failure text is entered by
\* these steps only
HealthyReportKeepsStatus ==
  [][ /\ HealthyReport => (isConnected' /\ connectionStatus' = connectionStatus)
      /\ (ConnectResolved /\ isConnected') =>
           (isSuccessResponse(connectionStatus') /\ ~StartsWithError(connectionStatus'))
      /\ (/\ isConnected' /\ FailureText(connectionStatus')
          /\ ~(isConnected /\ FailureText(connectionStatus)))
           => (ConnectResolved \/ HealthyReport)
    ]_vars

\* a connect failed for the 3rd time and the next health report was healthy:
\* connected under the error text of the connect
ConnectedUnderErrorText ==
  /\ ev.op = "healthResponse" /\ ev.emitted /\ ~ev.wasConnected
  /\ isConnected
  /\ StartsWithError(connectionStatus)

---------------------------------------------------------------------------
(* Properties of the frame of testConnection (SpecLoading) *)

\* the step is one of a test: the call of testConnection, or a step of the
\* executeWithRetry call it started
TestStep ==
  \/ ev'.op = "testConnection"
  \/ ev'.op \in CallEvents /\ ev'.task.kind = "test"

\* C31 as stated: testConnection, whatever its outcome, leaves isConnected,
\* connectionStatus, tables and showConnectionModal as they were
TestLeavesConnectionAlone ==
  [][ TestStep =>
        /\ isConnected' = isConnected
        /\ connectionStatus' = connectionStatus
        /\ tables' = tables
        /\ showConnectionModal' = showConnectionModal
    ]_vars

\* C31: no step of a test changes tables or showConnectionModal, and none but
\* a failed request changes isConnected or connectionStatus; a failed request
\* of a test publishes false on the health stream, which leaves a subscribed
\* controller not connected, with the connection-lost text in place of a
\* status that contains 'success' if it was connected
TestChangesConnectionOnlyByFailure ==
  [][ TestStep =>
        /\ tables' = tables
        /\ showConnectionModal' = showConnectionModal
        /\ ev'.op # "httpFailure" =>
             (isConnected' = isConnected /\ connectionStatus' = connectionStatus)
        /\ ev'.op = "httpFailure" =>
             /\ isConnected' = (IF view = "active" THEN FALSE ELSE isConnected)
             /\ connectionStatus' =
                  (IF view = "active" /\ isConnected /\ Includes(connectionStatus, "success")
                   THEN ConnectionLost ELSE connectionStatus)
    ]_vars

\* a connect succeeded while a test was in progress, and the request of the
\* test then failed: the view is no longer connected and shows the lost text
TestFailureDisconnected ==
  /\ ev.op = "httpFailure" /\ ev.task.kind = "test"
  /\ ev.wasConnected
  /\ view = "active"
  /\ ~isConnected
  /\ connectionStatus = ConnectionLost

=============================================================================
